---- MODULE Spec2Model ----
(***************************************************************************)
(* BRCCS, the Bayes-Rehermann conversational classification system         *)
(* (src/__init__.py): the conversation buffer, the snapshot store and its  *)
(* training task, the response generator and the feature extractor.        *)
(*                                                                         *)
(* Python lists are objects: self.data, self.snapshots[key] and the        *)
(* conversations inside them are references, so the model keeps a heap of  *)
(* outer lists (lists) and of conversations (convs) and the fields hold    *)
(* references into it.                                                     *)
(*                                                                         *)
(* A string is a sequence of one-character strings; a Feature Map is a     *)
(* function from key strings to values.                                    *)
(***************************************************************************)
EXTENDS Integers, Sequences, FiniteSets, TLC

VARIABLES
    database,          \* self.database is not None
    data,              \* self.data: reference to an outer list
    lists,             \* heap: outer list reference -> sequence of conversation references
    convs,             \* heap: conversation reference -> sequence of sentences
    classifiers,       \* self.classifiers: name -> trained classifier
    history,           \* self.history: speaker -> sequence of sentences
    conversation_ids,  \* self.conversation_ids: id -> index into self.data (0-based)
    snapshots,         \* self.snapshots: name -> reference to an outer list
    db,                \* the sqlite database: SnapIndex, Snapshot_<n> and History tables
    threads,           \* the Thread(target=train) tasks started by create_snapshot
    pc,                \* position of the calling thread (idle, or inside add_snapshot)
    ret,               \* the last call of the calling thread and its outcome
    captured,          \* ghost: name -> the Buffer's contents at create_snapshot(name), and its outcome
    gen,               \* the generation loop of respond, run step by step
    feat,              \* a feature extraction request and the Feature Maps built for it
    trip               \* a scenario of calls run from a new instance, and where it has got to

vars == <<database, data, lists, convs, classifiers, history, conversation_ids,
          snapshots, db, threads, pc, ret, captured, gen, feat, trip>>

sysvars == <<database, data, lists, convs, classifiers, history, conversation_ids,
             snapshots, db, threads, pc, ret, captured>>

(***************************************************************************)
(* Bounds of the model.                                                    *)
(***************************************************************************)
MaxLists == 3
MaxConvs == 2
MaxConvLen == 2
MaxBufLen == 2
MaxHist == 2
MaxInFlight == 1
MaxNames == 1
MaxLimit == 3
MaxRecursion == 2
MaxPrefix == 2
MaxFeatHistory == 2
MaxHistoryLimit == 2
MaxIndex == 1
MaxCls == 1
MaxTalkLen == 4

(***************************************************************************)
(* Program constants: the defaults of the keyword arguments.               *)
(***************************************************************************)
DefaultLimit == 1000
DefaultRecursionLimit == 5
DefaultHistoryLimit == 1
DefaultMaxHistory == 5
DefaultRespondHistoryLimit == 4
Padding == 10

None == "None"
Names == {"s" \o ToString(n) : n \in 1..MaxNames}
Ids == {"i1"}
Speakers == {"u"}

(***************************************************************************)
(* Strings.                                                                *)
(***************************************************************************)
Space == " "

RECURSIVE SplitFrom(_, _)
\* str.split(' '): the pieces between single spaces, empty pieces included;
\* cur is the piece being read.
SplitFrom(s, cur) ==
    IF s = <<>> THEN <<cur>>
    ELSE IF Head(s) = Space THEN <<cur>> \o SplitFrom(Tail(s), <<>>)
    ELSE SplitFrom(Tail(s), Append(cur, Head(s)))

Split(s) == SplitFrom(s, <<>>)

RECURSIVE Join(_)
\* ' '.join(words)
Join(words) ==
    IF words = <<>> THEN <<>>
    ELSE IF Len(words) = 1 THEN words[1]
    ELSE words[1] \o <<Space>> \o Join(Tail(words))

RECURSIVE Str(_)
\* a sequence of characters as one string value
Str(s) == IF s = <<>> THEN "" ELSE Head(s) \o Str(Tail(s))

Sent1 == <<"a">>
Sent2 == <<"b", "a">>
WordX == <<"b">>
Terminator == <<>>
WordY == <<"a">>
GenLabels == {Terminator, WordX, WordY}

Min(a, b) == IF a < b THEN a ELSE b
Max(a, b) == IF a > b THEN a ELSE b

(***************************************************************************)
(* The response generator: the loop of respond.                            *)
(***************************************************************************)
\* Python's s[:k]: the first k elements, or all but the last -k when k < 0.
SliceTo(s, k) ==
    IF k >= 0 THEN SubSeq(s, 1, Min(k, Len(s)))
    ELSE SubSeq(s, 1, Max(Len(s) + k, 0))

\* The classifier is opaque: within one call of respond only response_index
\* changes between queries, so its behaviour is the label it gives at each
\* position: prefix[i + 1] while i < Len(prefix), tail from then on.
Classify(cls, i) == IF i < Len(cls.prefix) THEN cls.prefix[i + 1] ELSE cls.tail

\* The locals of respond before the loop; last is <<>> for None, else <<word>>.
LoopInit(limit, recursion_limit) ==
    [response |-> <<>>, i |-> 0, last |-> <<>>, recurse |-> 0,
     limit |-> limit, recursion_limit |-> recursion_limit, stop |-> "no"]

\* LoopBody with the cap tested by > instead of >=.
LoopBody_late_cap(st, word) ==
    IF word = Terminator THEN [st EXCEPT !.stop = "terminator"]
    ELSE
      LET recurse == IF st.last = <<word>> THEN st.recurse + 1 ELSE 0 IN
      IF recurse > st.recursion_limit
      THEN [st EXCEPT !.recurse = recurse,
                      !.response = SliceTo(st.response, 1 - recurse),
                      !.stop = "recursion"]
      ELSE
        LET response == Append(st.response, word) IN
        IF Len(response) > st.limit
        THEN [st EXCEPT !.recurse = recurse, !.response = response,
                        !.i = st.i + 1, !.stop = "limit"]
        ELSE [st EXCEPT !.recurse = recurse, !.response = response,
                        !.i = st.i + 1, !.last = <<word>>,
                        !.recursion_limit = Min(st.recursion_limit, st.limit - Len(response))]

\* LoopBody without the repetition check.
LoopBody_no_repeat_check(st, word) ==
    IF word = Terminator THEN [st EXCEPT !.stop = "terminator"]
    ELSE
      LET response == Append(st.response, word) IN
      IF Len(response) >= st.limit
      THEN [st EXCEPT !.response = response, !.i = st.i + 1, !.stop = "limit"]
      ELSE [st EXCEPT !.response = response, !.i = st.i + 1, !.last = <<word>>]

\* LoopBody that appends the terminator like any other label.
LoopBody_no_terminator(st, word) ==
    LET response == Append(st.response, word) IN
    IF Len(response) >= st.limit
    THEN [st EXCEPT !.response = response, !.i = st.i + 1, !.stop = "limit"]
    ELSE [st EXCEPT !.response = response, !.i = st.i + 1, !.last = <<word>>]

\* One pass of the while loop for the label the classifier returned; stop
\* names the break that ended the loop.
LoopBody(st, word) ==
    IF word = Terminator THEN [st EXCEPT !.stop = "terminator"]
    ELSE
      LET recurse == IF st.last = <<word>> THEN st.recurse + 1 ELSE 0 IN
      IF recurse > st.recursion_limit
      THEN [st EXCEPT !.recurse = recurse,
                      !.response = SliceTo(st.response, 1 - recurse),
                      !.stop = "recursion"]
      ELSE
        LET response == Append(st.response, word) IN
        IF Len(response) >= st.limit
        THEN [st EXCEPT !.recurse = recurse, !.response = response,
                        !.i = st.i + 1, !.stop = "limit"]
        ELSE [st EXCEPT !.recurse = recurse, !.response = response,
                        !.i = st.i + 1, !.last = <<word>>,
                        !.recursion_limit = Min(st.recursion_limit, st.limit - Len(response))]

RECURSIVE RunLoop(_, _)
\* The loop run to its break.
RunLoop(st, cls) ==
    IF st.stop # "no" THEN st ELSE RunLoop(LoopBody(st, Classify(cls, st.i)), cls)

\* The words respond generates.
Generate(cls, limit, recursion_limit) == RunLoop(LoopInit(limit, recursion_limit), cls).response

(***************************************************************************)
(* The object and its heap as one record, so that a method that calls      *)
(* another (add_snapshot -> create_snapshot -> train, grow_conversation -> *)
(* add_conversation, respond -> grow_conversation) is the composition of   *)
(* their operators.  exc is the exception being raised ("" for none), val  *)
(* the value returned, out the string respond returns.                     *)
(***************************************************************************)
EmptyMap == [x \in {} |-> x]

Self ==
    [database |-> database, data |-> data, lists |-> lists, convs |-> convs,
     classifiers |-> classifiers, history |-> history,
     conversation_ids |-> conversation_ids, snapshots |-> snapshots, db |-> db,
     threads |-> threads, captured |-> captured,
     exc |-> "", val |-> None, out |-> <<>>]

\* The conversations of the outer list at ref, by value.
Value(w, ref) == [k \in 1..Len(w.lists[ref]) |-> w.convs[w.lists[ref][k]]]

\* The live Buffer: the conversations of self.data, by value.
Buffer == Value(Self, data)

\* A list object the caller builds and passes in: a conversation ...
AllocConv(w, conversation) == [w EXCEPT !.convs = Append(@, conversation)]

RECURSIVE AllocConvs(_, _)
AllocConvs(w, conversations) ==
    IF conversations = <<>> THEN w
    ELSE AllocConvs(AllocConv(w, Head(conversations)), Tail(conversations))

\* ... and a list of conversations, whose reference is Len(w.lists) + 1.
AllocData(w, conversations) ==
    LET w1 == AllocConvs(w, conversations) IN
    [w1 EXCEPT !.lists = Append(@, [k \in 1..Len(conversations) |-> Len(w.convs) + k])]

Raise(w, e) == [w EXCEPT !.exc = e]

(***************************************************************************)
(* Conversation Buffer and ids.                                            *)
(***************************************************************************)
\* add_conversation(conversation, id): c is the reference of the caller's list.
add_conversation(w, c, id) ==
    LET w1 == IF id # None
              THEN [w EXCEPT !.conversation_ids = (id :> Len(w.lists[w.data])) @@ @]
              ELSE w
    IN [w1 EXCEPT !.lists[w.data] = Append(@, c)]

\* restore_snapshot that replaces the Buffer's conversations by the snapshot's,
\* by none when the name is unknown.
restore_snapshot_replace(w, snapshot) ==
    IF snapshot \in DOMAIN w.snapshots
    THEN [w EXCEPT !.lists[w.data] = w.lists[w.snapshots[snapshot]], !.val = "True"]
    ELSE [w EXCEPT !.lists[w.data] = <<>>, !.val = "False"]

restore_snapshot(w, snapshot) ==
    IF snapshot \in DOMAIN w.snapshots
    THEN [w EXCEPT !.lists[w.data] = @ \o w.lists[w.snapshots[snapshot]], !.val = "True"]
    ELSE [w EXCEPT !.val = "False"]

\* grow_conversation(id, conversation): conversation is the caller's list, by
\* value; it becomes an object of the heap only when it is stored.
grow_conversation(w, id, conversation) ==
    IF id \notin DOMAIN w.conversation_ids
    THEN add_conversation(AllocConv(w, conversation), Len(w.convs) + 1, id)
    ELSE
      LET idx == w.conversation_ids[id] IN
      IF idx >= Len(w.lists[w.data]) THEN Raise(w, "IndexError")
      ELSE [w EXCEPT !.convs[w.lists[w.data][idx + 1]] = @ \o conversation]

reset_id(w, id) ==
    IF id \in DOMAIN w.conversation_ids
    THEN [w EXCEPT !.conversation_ids = [x \in DOMAIN @ \ {id} |-> @[x]], !.val = "True"]
    ELSE [w EXCEPT !.val = "False"]

(***************************************************************************)
(* The feature extractor.                                                  *)
(***************************************************************************)
Vowels == {"a", "e", "i", "o", "u"}
Hyphen == "-"

RECURSIVE SyllablesFrom(_, _, _, _)
\* The loop of syllables(word): done are the chunks appended, s the chunk
\* being read, vowel whether the last letter read was a vowel.
SyllablesFrom(word, done, s, vowel) ==
    IF word = <<>> THEN (IF s # <<>> THEN Append(done, s) ELSE done)
    ELSE
      LET l == Head(word)
          cut == (l \notin Vowels /\ vowel) \/ l = Hyphen
          done1 == IF cut THEN Append(done, s) ELSE done
          s1 == IF cut THEN <<>> ELSE s
      IN IF l # Hyphen
         THEN SyllablesFrom(Tail(word), done1, Append(s1, l), l \in Vowels)
         ELSE SyllablesFrom(Tail(word), done1, s1, vowel)

syllables(word) == SyllablesFrom(word, <<>>, <<>>, FALSE)

\* tuple(filter(lambda x: x != '', sent.split(' ')))
Tokens(sent) == SelectSeq(Split(sent), LAMBDA x : x # <<>>)

\* nltk.pos_tag is an external tagger: here a word that starts with a vowel
\* is tagged DT and any other word NNP.
PosTag(word) == IF Head(word) \in Vowels THEN <<"D", "T">> ELSE <<"N", "N", "P">>

\* data[k] = v
Put(d, k, v) == (k :> v) @@ d

\* sub_data(name, value), with i the value of the variable i when it is called
\* and n = len(tags).
sub_data(d, name, i, n, value) ==
    Put(Put(d, name \o " #" \o ToString(i), value),
        name \o " #-" \o ToString(n - i), value)

RECURSIVE SyllableFeatures(_, _, _, _)
\* for i, syl in enumerate(syllables(word)): sub_data('syllable {}'.format(i), syl)
\* (the loop rebinds i, the variable sub_data reads); j counts from 0.
SyllableFeatures(d, syls, j, n) ==
    IF j >= Len(syls) THEN d
    ELSE SyllableFeatures(sub_data(d, "syllable " \o ToString(j), j, n, Str(syls[j + 1])),
                          syls, j + 1, n)

\* The body of "for i, (word, tag) in enumerate(tags)" for token i.  After the
\* syllable loop i is the index of the last syllable, which is what
\* sub_data('last syllable', syl) is keyed by.  A token without a syllable (one
\* of hyphens only) is outside the model.
TokenFeatures(d, word, i, n, use_syllables) ==
    LET tag == PosTag(word)
        d1 == sub_data(d, "tag", i, n, Str(tag))
        d2 == sub_data(d1, "tag stem", i, n, Str(SliceTo(tag, 2)))
    IN IF use_syllables # 0
       THEN LET syls == syllables(word)
                d3 == SyllableFeatures(d2, syls, 0, n)
            IN sub_data(d3, "last syllable", Len(syls) - 1, n, Str(syls[Len(syls)]))
       ELSE sub_data(d2, "word", i, n, Str(word))

RECURSIVE AllTokenFeatures(_, _, _, _)
AllTokenFeatures(d, tokens, i, use_syllables) ==
    IF i >= Len(tokens) THEN d
    ELSE AllTokenFeatures(TokenFeatures(d, tokens[i + 1], i, Len(tokens), use_syllables),
                          tokens, i + 1, use_syllables)

\* sentence_data(sent, history, use_context=False, use_syllables, **kwargs):
\* the features of the sentence itself, written into kwargs.
sentence_features(sent, use_syllables, kwargs) ==
    LET tokens == Tokens(sent) IN
    IF Len(tokens) = 0
    THEN Put(Put(Put(kwargs, "total chars", Len(sent)), "total words", 0), "total tokens", 0)
    ELSE AllTokenFeatures(
            Put(Put(Put(kwargs, "total chars", Len(sent)), "total words", Len(Split(sent))),
                "total tokens", Len(tokens)),
            tokens, 0, use_syllables)

Reverse(s) == [k \in 1..Len(s) |-> s[Len(s) + 1 - k]]

\* The features sub of a history entry under the keys '-{i} {k}'.
Prefixed(i, sub) ==
    LET pre(k) == "-" \o ToString(i) \o " " \o k IN
    [kk \in {pre(k) : k \in DOMAIN sub} |-> sub[CHOOSE k \in DOMAIN sub : pre(k) = kk]]

RECURSIVE ContextFeatures(_, _, _, _)
\* for i, h in enumerate(history[:max_history][::-1]): window is that reversed
\* slice, i counts from 0.
ContextFeatures(d, window, i, use_syllables) ==
    IF i >= Len(window) THEN d
    ELSE ContextFeatures(
            Prefixed(i, sentence_features(window[i + 1], use_syllables - 1, EmptyMap)) @@ d,
            window, i + 1, use_syllables)

\* sentence_data(sent, history, use_context, use_syllables, max_history, **kwargs).
\* A sentence without tokens returns before the context is read.
sentence_data(sent, hist, use_context, use_syllables, max_history, kwargs) ==
    LET d == sentence_features(sent, use_syllables, kwargs) IN
    IF Len(Tokens(sent)) = 0 \/ ~use_context THEN d
    ELSE ContextFeatures(d, Reverse(SliceTo(hist, max_history)), 0, use_syllables)

\* The Feature Map of a training example (train(), lines 246-250): the
\* sentence with the earlier sentences of its conversation as history,
\* max_history = history_limit, then response_index.
TrainFeatures(sentence, earlier, history_limit, wi) ==
    Put(sentence_data(sentence, earlier, TRUE, 1, history_limit, EmptyMap),
        "response_index", wi)

\* The Feature Map respond gives the classifier at step i (line 379):
\* history_limit and response_index go in as extra fields.
RespondFeatures(sentence, hist, history_limit, i) ==
    sentence_data(sentence, hist, TRUE, 1, DefaultMaxHistory,
                  Put(Put(EmptyMap, "history_limit", history_limit), "response_index", i))

\* An example of train_data with its Feature Map: (features, label).
TrainExample(corpus, history_limit, e) ==
    LET context == corpus[e.c + 1] IN
    <<TrainFeatures(context[e.i + 1], SubSeq(context, 1, e.i), history_limit, e.response_index),
      e.label>>

(***************************************************************************)
(* Snapshots and training.                                                 *)
(***************************************************************************)
RECURSIVE Flatten(_)
Flatten(seqs) == IF seqs = <<>> THEN <<>> ELSE Head(seqs) \o Flatten(Tail(seqs))

\* The labels of one reply: its words, then the padding of terminators.
ReplyLabels(reply) == Split(reply) \o [k \in 1..Padding |-> Terminator]

\* PairExamples with response_index counted from 1.
PairExamples_index_from_one(c, i, reply) ==
    LET labels == ReplyLabels(reply) IN
    [k \in 1..Len(labels) |-> [c |-> c, i |-> i, response_index |-> k, label |-> labels[k]]]

\* The examples train() appends for sentence i of conversation c (0-based), one
\* per label of the reply context[i + 1]; the Feature Map of an example is
\* TrainFeatures above.
PairExamples(c, i, reply) ==
    LET labels == ReplyLabels(reply) IN
    [k \in 1..Len(labels) |-> [c |-> c, i |-> i, response_index |-> k - 1, label |-> labels[k]]]

ContextExamples(c, context) ==
    Flatten([i \in 1..(Len(context) - 1) |-> PairExamples(c, i - 1, context[i + 1])])

\* train_data, as train() builds it from the conversations it reads.
TrainIndex(corpus) ==
    Flatten([c \in 1..Len(corpus) |-> ContextExamples(c - 1, corpus[c])])

\* train(), first part: build train_data from self.data as it is now, then
\* train and register the classifier, or raise on an empty training set.  The
\* classifier is kept as what it was trained on.
train_build(w, key, history_limit) ==
    LET corpus == Value(w, w.data) IN
    IF Len(TrainIndex(corpus)) > 0
    THEN [w EXCEPT !.classifiers =
             (key :> [corpus |-> corpus, history_limit |-> history_limit]) @@ @]
    ELSE Raise(w, "ValueError")

\* self.data = []
train_clear_data(w) == [w EXCEPT !.lists = Append(@, <<>>), !.data = Len(w.lists) + 1]

\* self.conversation_ids = {}
train_clear_ids(w) == [w EXCEPT !.conversation_ids = EmptyMap]

\* The rows of Snapshot_<n>: (context index, sentence) for self.snapshots[key].
SnapshotRows(w, key) ==
    LET snap == Value(w, w.snapshots[key]) IN
    Flatten([c \in 1..Len(snap) |-> [k \in 1..Len(snap[c]) |-> <<c - 1, snap[c][k]>>]])

\* train(), last part: the commit to the database, if there is one and commit
\* is set.  CREATE TABLE fails when Snapshot_<n> exists already.
train_commit(w, key, commit) ==
    IF w.database /\ commit
    THEN
      LET n == Cardinality(DOMAIN w.snapshots) IN
      IF n \in DOMAIN w.db.Snapshot THEN Raise(w, "OperationalError")
      ELSE [w EXCEPT !.db.Snapshot = (n :> SnapshotRows(w, key)) @@ @,
                     !.db.SnapIndex = Append(@, <<key, n>>)]
    ELSE w

\* train() run to its end by the caller (use_threads false).
train(w, key, clear_data, history_limit, commit) ==
    LET w1 == train_build(w, key, history_limit) IN
    IF w1.exc # "" THEN w1
    ELSE
      LET w2 == IF clear_data THEN train_clear_ids(train_clear_data(w1)) ELSE w1 IN
      train_commit(w2, key, commit)

\* Ghost: the Buffer's contents at a call of create_snapshot, and what the call
\* reported ("True", or the exception that reached the caller).
Captured(w) == [buffer |-> Value(w, w.data), returned |-> "True"]

\* create_snapshot without its duplicate check: overwrites.
create_snapshot_overwrite(w, key, clear_data, history_limit, commit, use_threads) ==
    LET w1 == [w EXCEPT !.snapshots = (key :> w.data) @@ @,
                        !.captured = (key :> Captured(w)) @@ @] IN
    IF use_threads
    THEN [w1 EXCEPT !.threads = Append(@, [key |-> key, clear_data |-> clear_data,
                                           history_limit |-> history_limit,
                                           commit |-> commit, pc |-> "train"]),
                    !.val = "True"]
    ELSE
      LET w2 == train(w1, key, clear_data, history_limit, commit) IN
      IF w2.exc # "" THEN [w2 EXCEPT !.captured[key].returned = w2.exc]
      ELSE [w2 EXCEPT !.val = "True"]

\* create_snapshot(key, clear_data, history_limit, commit, use_threads).
create_snapshot(w, key, clear_data, history_limit, commit, use_threads) ==
    IF key \in DOMAIN w.snapshots THEN [w EXCEPT !.val = "False"]
    ELSE
      LET w1 == [w EXCEPT !.snapshots = (key :> w.data) @@ @,
                          !.captured = (key :> Captured(w)) @@ @] IN
      IF use_threads
      THEN [w1 EXCEPT !.threads = Append(@, [key |-> key, clear_data |-> clear_data,
                                             history_limit |-> history_limit,
                                             commit |-> commit, pc |-> "train"]),
                      !.val = "True"]
      ELSE
        LET w2 == train(w1, key, clear_data, history_limit, commit) IN
        IF w2.exc # "" THEN [w2 EXCEPT !.captured[key].returned = w2.exc]
        ELSE [w2 EXCEPT !.val = "True"]

\* add_snapshot up to the return of create_snapshot: self.data is the caller's
\* list (reference d) while create_snapshot runs.
add_snapshot_call(w, name, d, clear_data, history_limit, commit, use_threads) ==
    create_snapshot([w EXCEPT !.data = d], name, clear_data, history_limit, commit, use_threads)

\* add_snapshot, from "self.data = old" on.
add_snapshot_return(w, old, res) == [w EXCEPT !.data = old, !.val = res]

(***************************************************************************)
(* respond.                                                                *)
(***************************************************************************)
HistoryId(speaker) == "__RESPONSE_HISTORY:" \o speaker \o "__"

\* respond_record that appends the output to the History before the sentence.
respond_record_output_first(w, sentence, speaker, commit_history, out) ==
    LET w1 == grow_conversation(w, HistoryId(speaker), <<sentence, out>>) IN
    IF w1.exc # "" THEN w1
    ELSE
      LET old == IF speaker \in DOMAIN w1.history THEN w1.history[speaker] ELSE <<>>
          w2 == [w1 EXCEPT !.history = (speaker :> (old \o <<out, sentence>>)) @@ @]
      IN
      IF ~commit_history THEN w2
      ELSE IF ~w2.database THEN Raise(w2, "AttributeError")
      ELSE [w2 EXCEPT !.db.History = @ \o <<<<speaker, sentence>>, <<speaker, out>>>>]

\* The end of respond, with history tracking: the conversation, the speaker's
\* History and, when commit_history is set, the History table.
respond_record(w, sentence, speaker, commit_history, out) ==
    LET w1 == grow_conversation(w, HistoryId(speaker), <<sentence, out>>) IN
    IF w1.exc # "" THEN w1
    ELSE
      LET old == IF speaker \in DOMAIN w1.history THEN w1.history[speaker] ELSE <<>>
          w2 == [w1 EXCEPT !.history = (speaker :> (old \o <<sentence, out>>)) @@ @]
      IN
      IF ~commit_history THEN w2
      ELSE IF ~w2.database THEN Raise(w2, "AttributeError")
      ELSE [w2 EXCEPT !.db.History = @ \o <<<<speaker, sentence>>, <<speaker, out>>>>]

\* respond that records the exchange before it looks the classifier up.
respond_lookup_late(w, snapshot, sentence, speaker, use_history, commit_history, limit, recursion_limit, cls) ==
    LET out == Join(Generate(cls, limit, recursion_limit))
        w1 == IF use_history /\ speaker # None
              THEN respond_record(w, sentence, speaker, commit_history, out)
              ELSE w
    IN IF w1.exc # "" THEN w1
       ELSE IF snapshot \notin DOMAIN w.classifiers THEN Raise(w1, "KeyError")
       ELSE [w1 EXCEPT !.val = "ok", !.out = out]

\* respond(snapshot, sentence, speaker, use_history, commit_history, limit,
\* recursion_limit), with cls the behaviour of the classifier it finds.
respond(w, snapshot, sentence, speaker, use_history, commit_history, limit, recursion_limit, cls) ==
    IF snapshot \notin DOMAIN w.classifiers THEN Raise(w, "KeyError")
    ELSE
      LET out == Join(Generate(cls, limit, recursion_limit))
          w1 == IF use_history /\ speaker # None
                THEN respond_record(w, sentence, speaker, commit_history, out)
                ELSE w
      IN IF w1.exc # "" THEN w1 ELSE [w1 EXCEPT !.val = "ok", !.out = out]

(***************************************************************************)
(* The calls the model makes.                                              *)
(***************************************************************************)
ConvInputs == {<<Sent1>>}
GrowInputs == {<<Sent2>>}
DataInputs == {<<>>, <<<<Sent1, Sent2>>>>}
ClsPrefixes == UNION {[1..n -> {WordX}] : n \in 0..MaxCls}
ClsInputs == {[prefix |-> p, tail |-> Terminator] : p \in ClsPrefixes}

\* commit keeps its default (True): whether train() commits is decided by
\* self.database.
DefaultCommit == TRUE

\* The training tasks that have not ended.
\* use_threads, with the model's bound on the tasks in flight.
UseThreads == IF Len(threads) < MaxInFlight THEN BOOLEAN ELSE {FALSE}

Idle == [op |-> "idle", old |-> 0, res |-> None]
GenIdle == [pc |-> "idle"]
FeatIdle == [pc |-> "idle"]
TripIdle == [pc |-> "idle"]

\* The model's bounds on the sizes a call may leave behind; the scenario of
\* repeated exchanges with a speaker needs room for two exchanges.
Fits(w) ==
    /\ Len(w.lists) <= MaxLists
    /\ Len(w.convs) <= MaxConvs
    /\ \A r \in 1..Len(w.lists) : Len(w.lists[r]) <= MaxBufLen
    /\ \A c \in 1..Len(w.convs) :
          Len(w.convs[c]) <= IF trip.pc = "talk" THEN MaxTalkLen ELSE MaxConvLen
    /\ \A sp \in DOMAIN w.history :
          Len(w.history[sp]) <= IF trip.pc = "talk" THEN MaxTalkLen ELSE MaxHist

\* The fields of the object after a step.
Store(w) ==
    /\ Fits(w)
    /\ database' = w.database
    /\ data' = w.data
    /\ lists' = w.lists
    /\ convs' = w.convs
    /\ classifiers' = w.classifiers
    /\ history' = w.history
    /\ conversation_ids' = w.conversation_ids
    /\ snapshots' = w.snapshots
    /\ db' = w.db
    /\ threads' = w.threads
    /\ captured' = w.captured
    /\ UNCHANGED <<gen, feat>>

\* A call of the calling thread returns w.val, or ends in the exception w.exc.
Return(w, op, arg) ==
    /\ Store(w)
    /\ ret' = [op |-> op, val |-> IF w.exc # "" THEN w.exc ELSE w.val, out |-> w.out]
    /\ pc' = Idle
    /\ UNCHANGED trip

SysInit ==
    /\ database \in BOOLEAN
    /\ data = 1
    /\ lists = << <<>> >>
    /\ convs = <<>>
    /\ classifiers = EmptyMap
    /\ history = EmptyMap
    /\ conversation_ids = EmptyMap
    /\ snapshots = EmptyMap
    /\ db = [SnapIndex |-> <<>>, Snapshot |-> EmptyMap, History |-> <<>>]
    /\ threads = <<>>
    /\ pc = Idle
    /\ ret = [op |-> "__init__", val |-> None, out |-> <<>>]
    /\ captured = EmptyMap

Init == SysInit /\ gen = GenIdle /\ feat = FeatIdle /\ trip = TripIdle

AddConversation ==
    /\ pc.op = "idle"
    /\ \E conversation \in ConvInputs, id \in Ids \cup {None} :
         Return(add_conversation(AllocConv(Self, conversation), Len(convs) + 1, id),
                "add_conversation", id)

GrowConversationCall(id, conversation) ==
    /\ pc.op = "idle"
    /\ Return(grow_conversation(Self, id, conversation), "grow_conversation", id)

GrowConversation == \E id \in Ids, conversation \in GrowInputs : GrowConversationCall(id, conversation)

ResetId ==
    /\ pc.op = "idle"
    /\ \E id \in Ids \cup {HistoryId(sp) : sp \in Speakers} :
         Return(reset_id(Self, id), "reset_id", id)

RestoreSnapshotCall(snapshot) ==
    /\ pc.op = "idle"
    /\ Return(restore_snapshot(Self, snapshot), "restore_snapshot", snapshot)

RestoreSnapshot == \E snapshot \in Names : RestoreSnapshotCall(snapshot)

CreateSnapshotCall(key) ==
    /\ pc.op = "idle"
    /\ \E clear_data \in BOOLEAN, use_threads \in UseThreads :
         Return(create_snapshot(Self, key, clear_data, DefaultHistoryLimit, DefaultCommit,
                                use_threads),
                "create_snapshot", key)

CreateSnapshot == \E key \in Names : CreateSnapshotCall(key)

\* Ghost: what add_snapshot(name, ...) found when it was called with a new
\* name, the live Buffer's contents and the Conversation-ID Map.
Found(w, name) ==
    IF name \in DOMAIN snapshots THEN w
    ELSE [w EXCEPT !.captured[name] =
             [buffer |-> @.buffer, returned |-> @.returned,
              live |-> Buffer, ids |-> conversation_ids]]

\* add_snapshot(name, data, ...) until create_snapshot has returned; an
\* exception leaves add_snapshot there and then.
AddSnapshot ==
    /\ pc.op = "idle"
    /\ \E name \in Names, d \in DataInputs, clear_data \in BOOLEAN, use_threads \in UseThreads :
         LET w == Found(add_snapshot_call(AllocData(Self, d), name, Len(lists) + 1, clear_data,
                                          DefaultHistoryLimit, DefaultCommit, use_threads),
                        name)
         IN IF w.exc # "" THEN Return(w, "add_snapshot", name)
            ELSE /\ Store(w)
                 /\ pc' = [op |-> "add_snapshot", old |-> data, res |-> w.val]
                 /\ ret' = [op |-> "add_snapshot", val |-> "running", out |-> <<>>]
                 /\ UNCHANGED trip

\* add_snapshot: self.data = old; return res
AddSnapshotReturn ==
    /\ pc.op = "add_snapshot"
    /\ Return(add_snapshot_return(Self, pc.old, pc.res), "add_snapshot", None)

RespondCall(snapshot) ==
    /\ pc.op = "idle"
    /\ \E sentence \in {Sent1}, speaker \in Speakers \cup {None}, use_history \in BOOLEAN,
          commit_history \in BOOLEAN, cls \in ClsInputs :
         Return(respond(Self, snapshot, sentence, speaker, use_history, commit_history,
                        DefaultLimit, DefaultRecursionLimit, cls),
                "respond", snapshot)

Respond == \E snapshot \in Names : RespondCall(snapshot)

(***************************************************************************)
(* The steps of a background training task.                                *)
(***************************************************************************)
\* The sequence s without its element t.
Remove(s, t) == SubSeq(s, 1, t - 1) \o SubSeq(s, t + 1, Len(s))

\* A step of task t leaves the calling thread where it is.  A task that has
\* ended, by returning or by an exception (which nobody catches: it is lost
\* with the thread), is no longer among the threads.
ThreadStep(w, t, next) ==
    /\ Store([w EXCEPT !.threads = IF w.exc # "" \/ next = "done"
                                   THEN Remove(@, t)
                                   ELSE [@ EXCEPT ![t].pc = next]])
    /\ UNCHANGED <<pc, ret, trip>>

AfterClear(th) == IF database /\ th.commit THEN "commit" ELSE "done"

ThreadTrain ==
    \E t \in 1..Len(threads) :
      /\ threads[t].pc = "train"
      /\ ThreadStep(train_build(Self, threads[t].key, threads[t].history_limit), t,
                    IF threads[t].clear_data THEN "clear_data" ELSE AfterClear(threads[t]))

ThreadClearData ==
    \E t \in 1..Len(threads) :
      /\ threads[t].pc = "clear_data"
      /\ ThreadStep(train_clear_data(Self), t, "clear_ids")

ThreadClearIds ==
    \E t \in 1..Len(threads) :
      /\ threads[t].pc = "clear_ids"
      /\ ThreadStep(train_clear_ids(Self), t, AfterClear(threads[t]))

ThreadCommit ==
    \E t \in 1..Len(threads) :
      /\ threads[t].pc = "commit"
      /\ ThreadStep(train_commit(Self, threads[t].key, threads[t].commit), t, "done")

Next ==
    \/ AddConversation
    \/ GrowConversation
    \/ ResetId
    \/ RestoreSnapshot
    \/ CreateSnapshot
    \/ AddSnapshot
    \/ AddSnapshotReturn
    \/ Respond
    \/ ThreadTrain
    \/ ThreadClearData
    \/ ThreadClearIds
    \/ ThreadCommit

Spec == Init /\ [][Next]_vars

(***************************************************************************)
(* Properties of the snapshot store, the training task and respond (Spec). *)
(***************************************************************************)
\* The training task of name has not built its training set yet.
TrainingPending(name) ==
    \E t \in 1..Len(threads) : threads[t].key = name /\ threads[t].pc = "train"

\* C1: once create_snapshot(name) has returned true, the conversations stored
\* under name stay equal to the Buffer's contents at that call.
C1_SnapshotFrozen ==
    \A name \in DOMAIN snapshots :
        captured[name].returned = "True" =>
            Value(Self, snapshots[name]) = captured[name].buffer

\* C2: create_snapshot with a name already in the Snapshot store returns false
\* and changes nothing: not the snapshots nor their conversations, the
\* classifiers, the Buffer, the Conversation-ID Map, the database or the
\* History, and it starts no training task.
C2_DuplicateRejected ==
    [][\A key \in Names :
         (key \in DOMAIN snapshots /\ CreateSnapshotCall(key)) =>
            /\ ret'.op = "create_snapshot"
            /\ ret'.val = "False"
            /\ UNCHANGED <<snapshots, classifiers, data, lists, convs, conversation_ids,
                           threads, db, history, captured>>]_vars

\* C2 witness: a duplicate create_snapshot has returned false with a snapshot,
\* its classifier and a conversation in the Buffer to preserve.
C2_Witness ==
    /\ ret.op = "create_snapshot"
    /\ ret.val = "False"
    /\ DOMAIN classifiers # {}
    /\ Len(lists[data]) > 0

C6_EmptyTrainingReported ==
    \A name \in DOMAIN snapshots :
        (name \notin DOMAIN classifiers /\ ~TrainingPending(name)) =>
            captured[name].returned = "ValueError"

\* C7: respond with a name that has no registered classifier ends in KeyError
\* and leaves the Buffer, the Conversation-ID Map, every History and the
\* History table unchanged.
C7_UnknownSnapshot ==
    [][\A snapshot \in Names :
         (snapshot \notin DOMAIN classifiers /\ RespondCall(snapshot)) =>
            /\ ret'.op = "respond"
            /\ ret'.val = "KeyError"
            /\ UNCHANGED <<data, lists, convs, conversation_ids, history, db, classifiers,
                           snapshots>>]_vars

\* C7 witness: respond has ended in KeyError for a name that is in the Snapshot
\* store but has no classifier, with a conversation in the Buffer.
C7_Witness ==
    /\ ret.op = "respond"
    /\ ret.val = "KeyError"
    /\ DOMAIN snapshots # {}
    /\ Len(lists[data]) > 0

\* The training of name is over: no task for it is in flight.
TrainingOver(name) == \A t \in 1..Len(threads) : threads[t].key # name

\* C9: on an instance without a database, create_snapshot with commit set does
\* not complete as an in-memory-only operation: no such call reports success
\* and ends its training with a classifier registered.
C9_PersistWithoutStoreFails ==
    ~database =>
        \A name \in DOMAIN classifiers :
            TrainingOver(name) => captured[name].returned # "True"

\* C12: grow(id, conv) on an id that is not in the Conversation-ID Map leaves
\* the Buffer and the id map as add(conv, id) would; on an id that is in the
\* map it appends conv's sentences to the conversation at the id's index and
\* leaves every other conversation, the Buffer length and the id map unchanged.
C12_GrowAsAddOrAppend ==
    [][\A id \in Ids, conversation \in GrowInputs :
         GrowConversationCall(id, conversation) =>
            IF id \notin DOMAIN conversation_ids
            THEN LET a == add_conversation(AllocConv(Self, conversation), Len(convs) + 1, id) IN
                 /\ Buffer' = Value(a, a.data)
                 /\ conversation_ids' = a.conversation_ids
            ELSE LET idx == conversation_ids[id] IN
                 /\ idx < Len(Buffer)
                 /\ Len(Buffer') = Len(Buffer)
                 /\ \A k \in 1..Len(Buffer) :
                       Buffer'[k] = IF k = idx + 1 THEN Buffer[k] \o conversation ELSE Buffer[k]
                 /\ conversation_ids' = conversation_ids]_vars

\* C13: restore(name) with a name that is not in the Snapshot store returns
\* false and leaves the Buffer, the Conversation-ID Map, the Snapshot store and
\* the Classifier Registry unchanged.
C13_RestoreUnknown ==
    [][\A snapshot \in Names :
         (snapshot \notin DOMAIN snapshots /\ RestoreSnapshotCall(snapshot)) =>
            /\ ret'.op = "restore_snapshot"
            /\ ret'.val = "False"
            /\ Buffer' = Buffer
            /\ UNCHANGED <<data, lists, convs, conversation_ids, snapshots, classifiers>>]_vars

\* C13 witness: restore of an unknown name has returned false with a tracked
\* conversation in the Buffer and nothing in the Snapshot store.
C13_Witness ==
    /\ ret.op = "restore_snapshot"
    /\ ret.val = "False"
    /\ DOMAIN snapshots = {}
    /\ Len(Buffer) > 0
    /\ DOMAIN conversation_ids # {}

\* C17: once add_snapshot(name, data) with a new name has returned true and
\* the training it started has finished (and nothing else was called since),
\* data is the snapshot stored under name, the classifier of name was trained
\* on data, and the live Buffer and the Conversation-ID Map are what they were
\* before the call, whether the training ran in the call or in the background
\* and whatever clear_data was.
C17_AddSnapshotFrame ==
    \A name \in DOMAIN captured :
        ( /\ "live" \in DOMAIN captured[name]
          /\ ret.op = "add_snapshot"
          /\ ret.val = "True"
          /\ TrainingOver(name) ) =>
            /\ Value(Self, snapshots[name]) = captured[name].buffer
            /\ name \in DOMAIN classifiers
            /\ classifiers[name].corpus = captured[name].buffer
            /\ Buffer = captured[name].live
            /\ conversation_ids = captured[name].ids

\* C18: whenever the calling thread is between two calls, whatever a
\* background training task has done so far, each id of the Conversation-ID Map
\* maps to an index that exists in the live Buffer (so that grow on a tracked
\* id does not index outside the Buffer).
C18_IdsIndexBuffer ==
    pc.op = "idle" =>
        \A id \in DOMAIN conversation_ids : conversation_ids[id] < Len(Buffer)

\* C19: when the background task of create_snapshot(name, clear_data) clears
\* the Buffer, every conversation added after create_snapshot returned (the
\* Buffer entries beyond the ones captured at the call) is still in the live
\* Buffer afterwards: clearing removes only the captured conversations.
C19_ClearKeepsLater ==
    [][\A t \in 1..Len(threads) :
         LET name == threads[t].key IN
         ( /\ ThreadClearData
           /\ threads[t].pc = "clear_data"
           /\ "live" \notin DOMAIN captured[name]
           /\ data = snapshots[name] ) =>
             \A k \in (Len(captured[name].buffer) + 1)..Len(Buffer) :
                 \E j \in 1..Len(Buffer') : Buffer'[j] = Buffer[k]]_vars

\* C20: whenever no training task is in flight (none in the background, and
\* the calling thread not inside add_snapshot), the Snapshot store and the
\* Classifier Registry hold the same names: no name is left taken in the store
\* without a classifier.  Only a training task registers a classifier, so a
\* name without one in such a state never gets one.
C20_StoreMatchesRegistry ==
    (threads = <<>> /\ pc.op = "idle") => DOMAIN snapshots = DOMAIN classifiers

(***************************************************************************)
(* The generation loop of respond run one classifier query at a time, for  *)
(* every limit, recursion_limit and classifier behaviour within the        *)
(* bounds.                                                                 *)
(***************************************************************************)
GenPrefixes == UNION {[1..n -> GenLabels] : n \in 0..MaxPrefix}

GenInputs ==
    {[pc |-> "loop", limit |-> l, recursion_limit |-> r, cls |-> [prefix |-> p, tail |-> t],
      st |-> LoopInit(l, r), queries |-> 0, out |-> <<>>] :
        l \in 0..MaxLimit, r \in 0..MaxRecursion, p \in GenPrefixes, t \in GenLabels}

GenInit == SysInit /\ database = FALSE /\ feat = FeatIdle /\ trip = TripIdle /\ gen \in GenInputs

\* word = c.classify(...) and the rest of the loop body.
GenQuery ==
    /\ gen.pc = "loop"
    /\ gen.st.stop = "no"
    /\ gen' = [gen EXCEPT !.st = LoopBody(gen.st, Classify(gen.cls, gen.st.i)),
                          !.queries = @ + 1]
    /\ UNCHANGED <<sysvars, feat, trip>>

\* return ' '.join(response)
GenReturn ==
    /\ gen.pc = "loop"
    /\ gen.st.stop # "no"
    /\ gen' = [gen EXCEPT !.pc = "done", !.out = Join(gen.st.response)]
    /\ UNCHANGED <<sysvars, feat, trip>>

GenNext == GenQuery \/ GenReturn

\* respond runs its loop synchronously on the calling thread, which keeps running.
SpecGen == GenInit /\ [][GenNext]_vars /\ WF_vars(GenNext)

(***************************************************************************)
(* Properties of the response generator (SpecGen).                         *)
(***************************************************************************)
RECURSIVE TrailingRun(_, _)
\* The length of the run of x that words ends in.
TrailingRun(words, x) ==
    IF words = <<>> \/ words[Len(words)] # x THEN 0
    ELSE 1 + TrailingRun(SubSeq(words, 1, Len(words) - 1), x)

\* The labels the classifier gives at positions 0 .. n - 1.
FirstLabels(cls, n) == [k \in 1..n |-> Classify(cls, k - 1)]

\* The classifier returns WordX at every position.
AlwaysX(cls) == cls.tail = WordX /\ \A k \in 1..Len(cls.prefix) : cls.prefix[k] = WordX

\* C3 as stated: for any classifier and ANY limit, the returned string split
\* on single spaces has at most limit pieces, and the loop never holds more
\* than limit words.
C3_CapAnyLimit ==
    /\ Len(gen.st.response) <= gen.limit
    /\ gen.pc = "done" => Len(Split(gen.out)) <= gen.limit

\* C3 amended: for any classifier and any limit >= 1, the returned string split
\* on single spaces has at most limit pieces, and the loop never holds more
\* than limit words.
C3_CapLimitAtLeastOne ==
    gen.limit >= 1 =>
        /\ Len(gen.st.response) <= gen.limit
        /\ gen.pc = "done" => Len(Split(gen.out)) <= gen.limit

\* C3 witness: a call with limit >= 2 has returned a response of exactly limit words.
C3_Witness ==
    /\ gen.pc = "done"
    /\ gen.limit >= 2
    /\ gen.st.stop = "limit"
    /\ Len(Split(gen.out)) = gen.limit

\* C4 as stated: with a classifier that always returns X, the returned
\* response ends in a run of X of length at most recursion_limit.
C4_RunAtMostRecursionLimit ==
    (gen.pc = "done" /\ AlwaysX(gen.cls)) =>
        TrailingRun(Split(gen.out), WordX) <= gen.recursion_limit

\* C4 amended: with a classifier that always returns X, for every limit and
\* every recursion_limit >= 0 respond halts, after at most max(limit, 1)
\* classifier queries, and the returned response ends in a run of X of length
\* at most recursion_limit + 1.
C4_HaltsRunBounded ==
    /\ [](AlwaysX(gen.cls) =>
            /\ gen.queries <= Max(gen.limit, 1)
            /\ gen.pc = "done" => TrailingRun(Split(gen.out), WordX) <= gen.recursion_limit + 1)
    /\ (AlwaysX(gen.cls) ~> gen.pc = "done")

\* C4 witness: a call with an always-X classifier has returned after the
\* repetition check cut the run.
C4_Witness ==
    /\ gen.pc = "done"
    /\ AlwaysX(gen.cls)
    /\ gen.st.stop = "recursion"
    /\ gen.queries >= 3
    /\ gen.out = WordX

\* C10: no query before the last returned the terminator; and when the query
\* at position i returns it, the loop has stopped there, the output is the i
\* labels given before it, and the string returned is those words joined (the
\* empty string when i = 0).
C10_TerminatorStops ==
    LET q == gen.queries IN
    /\ \A k \in 0..(q - 2) : Classify(gen.cls, k) # Terminator
    /\ (q >= 1 /\ Classify(gen.cls, q - 1) = Terminator) =>
          /\ gen.st.stop = "terminator"
          /\ gen.st.i = q - 1
          /\ gen.st.response = FirstLabels(gen.cls, q - 1)
          /\ gen.pc = "done" => gen.out = Join(FirstLabels(gen.cls, q - 1))
          /\ (gen.pc = "done" /\ q = 1) => gen.out = <<>>

\* C10 witness: the terminator came at position 2 and the two words before it
\* were returned.
C10_Witness ==
    /\ gen.pc = "done"
    /\ gen.st.stop = "terminator"
    /\ gen.queries = 3
    /\ Len(Split(gen.out)) = 2

\* C14: when the loop stops because repeat_count exceeds recursion_limit (any
\* recursion_limit >= 0), the output is the output accumulated so far, the
\* labels of positions 0 .. i - 1, without its last repeat_count - 1 words, and
\* that is what respond returns: the words before the run and one instance of
\* the repeated word are kept.
C14_TrimKeepsOne ==
    gen.st.stop = "recursion" =>
        LET accumulated == FirstLabels(gen.cls, gen.st.i)
            kept == SubSeq(accumulated, 1, Len(accumulated) - (gen.st.recurse - 1))
        IN /\ gen.st.response = kept
           /\ gen.pc = "done" => gen.out = Join(kept)

(***************************************************************************)
(* The feature extractor applied as train() and as respond apply it, for   *)
(* every sentence, history, history limit and response_index within the    *)
(* bounds.                                                                 *)
(***************************************************************************)
FeatSentences == {<<>>, <<"a">>, <<"b", "a">>, <<"b", "a", " ", "a", "b">>}
FeatHistories == UNION {[1..n -> FeatSentences] : n \in 0..MaxFeatHistory}

FeatInputs ==
    {[pc |-> "start", sentence |-> x, history |-> h, history_limit |-> hl, response_index |-> ri,
      train |-> EmptyMap, infer |-> EmptyMap, trained |-> FALSE, inferred |-> FALSE] :
        x \in FeatSentences, h \in FeatHistories, hl \in 0..MaxHistoryLimit, ri \in 0..MaxIndex}

FeatInit == SysInit /\ database = FALSE /\ gen = GenIdle /\ trip = TripIdle /\ feat \in FeatInputs

\* train() builds the example for the sentence after the conversation history.
FeatTrain ==
    /\ feat.pc = "start"
    /\ ~feat.trained
    /\ feat' = [feat EXCEPT !.trained = TRUE,
                            !.train = TrainFeatures(feat.sentence, feat.history,
                                                    feat.history_limit, feat.response_index)]
    /\ UNCHANGED <<sysvars, gen, trip>>

\* respond builds the Feature Map for its classifier query.
FeatRespond ==
    /\ feat.pc = "start"
    /\ ~feat.inferred
    /\ feat' = [feat EXCEPT !.inferred = TRUE,
                            !.infer = RespondFeatures(feat.sentence, feat.history,
                                                      feat.history_limit, feat.response_index)]
    /\ UNCHANGED <<sysvars, gen, trip>>

FeatNext == FeatTrain \/ FeatRespond

SpecFeat == FeatInit /\ [][FeatNext]_vars

\* The n most recent entries of a history, the most recent first.
RecentWindow(hist, n) == [j \in 1..Min(n, Len(hist)) |-> hist[Len(hist) + 1 - j]]

\* C15: with use_context true and a history of any length, the context features
\* of a training example come from the max_history most recent entries: "-0 "
\* carries the features of the most recent entry, "-1 " those of the one before
\* it, and so on, and nothing else is added to the features of the sentence
\* itself (for a sentence with at least one token).
C15_ContextMostRecent ==
    (feat.pc = "start" /\ feat.trained /\ Len(Tokens(feat.sentence)) > 0) =>
        feat.train =
            Put(ContextFeatures(sentence_features(feat.sentence, 1, EmptyMap),
                                RecentWindow(feat.history, feat.history_limit), 0, 1),
                "response_index", feat.response_index)

\* C8: for the same sentence, history, history limit and response_index the
\* Feature Map respond passes to the classifier has the same keys, with the
\* same values, as the Feature Map of the training example.
C8_SameFeatureMap ==
    (feat.pc = "start" /\ feat.trained /\ feat.inferred) =>
        /\ DOMAIN feat.infer = DOMAIN feat.train
        /\ \A k \in DOMAIN feat.infer \cap DOMAIN feat.train : feat.infer[k] = feat.train[k]

(***************************************************************************)
(* A trained reply asked back: from a new instance, add_conversation([s,   *)
(* r]), create_snapshot trained by the caller, respond(name, s), for every *)
(* s, r, limit and recursion_limit within the bounds.                      *)
(***************************************************************************)
\* The Feature Map fm has every feature of the training example, with its value.
Agrees(fm, example) == \A k \in DOMAIN example : k \in DOMAIN fm /\ fm[k] = example[k]

\* c.classify(fm) for a classifier that reproduces its training labels: the
\* label of the first training example whose features fm has (a decision tree
\* reads only the features it was trained on), and the terminator, the label of
\* the padding, when there is none.
TrainedLabel(classifier, fm) ==
    LET idx == TrainIndex(classifier.corpus)
        hits == {e \in 1..Len(idx) :
                    Agrees(fm, TrainExample(classifier.corpus, classifier.history_limit, idx[e])[1])}
    IN IF hits = {} THEN Terminator
       ELSE idx[CHOOSE e \in hits : \A o \in hits : e <= o].label

\* The behaviour of that classifier within one call of respond: its label at
\* each response_index, for the Feature Map respond builds there.
TrainedCls(classifier, sentence, hist, history_limit) ==
    [prefix |-> [k \in 1..Len(TrainIndex(classifier.corpus)) |->
                    TrainedLabel(classifier, RespondFeatures(sentence, hist, history_limit, k - 1))],
     tail |-> Terminator]

TripSentences == {Sent1, Sent2}
TripReplies ==
    {<<"b">>, <<"b", " ", "a">>, <<"b", " ", "b">>, <<"a", " ", "b", " ", "a">>,
     <<"b", " ", "b", " ", "b">>, <<"b", " ", " ", "a">>}

TripInputs ==
    {[pc |-> "start", s |-> s, r |-> r, limit |-> l, recursion_limit |-> rl, out |-> <<>>] :
        s \in TripSentences, r \in TripReplies, l \in 1..MaxLimit, rl \in 0..MaxRecursion}

TripInit == SysInit /\ gen = GenIdle /\ feat = FeatIdle /\ trip \in TripInputs

\* A call of the scenario: the object after it, the outcome, the next position.
TripCall(w, op, next) ==
    /\ Store(w)
    /\ ret' = [op |-> op, val |-> IF w.exc # "" THEN w.exc ELSE w.val, out |-> w.out]
    /\ pc' = Idle
    /\ trip' = [trip EXCEPT !.pc = next, !.out = w.out]

\* add_conversation([s, r])
TripAdd ==
    /\ trip.pc = "start"
    /\ TripCall(add_conversation(AllocConv(Self, <<trip.s, trip.r>>), Len(convs) + 1, None),
                "add_conversation", "added")

\* create_snapshot("s1", use_threads=False)
TripCreate ==
    /\ trip.pc = "added"
    /\ \E key \in Names, clear_data \in BOOLEAN :
         TripCall(create_snapshot(Self, key, clear_data, DefaultHistoryLimit, DefaultCommit, FALSE),
                  "create_snapshot", "trained")

\* respond("s1", s, limit=..., recursion_limit=...), answered by the classifier
\* create_snapshot registered.
TripRespond ==
    /\ trip.pc = "trained"
    /\ \E snapshot \in DOMAIN classifiers :
         TripCall(respond(Self, snapshot, trip.s, None, TRUE, TRUE, trip.limit,
                          trip.recursion_limit,
                          TrainedCls(classifiers[snapshot], trip.s, <<>>,
                                     DefaultRespondHistoryLimit)),
                  "respond", "done")

TripNext == TripAdd \/ TripCreate \/ TripRespond

SpecTrip == TripInit /\ [][TripNext]_vars

\* The words of a reply.
Words(r) == Split(r)

\* No word of the reply is empty and no two adjacent words are the same.
PlainReply(r) ==
    /\ \A k \in 1..Len(Words(r)) : Words(r)[k] # <<>>
    /\ \A k \in 1..(Len(Words(r)) - 1) : Words(r)[k] # Words(r)[k + 1]

\* C11 as stated: with the Buffer holding [s, r] and the snapshot trained
\* synchronously, respond(name, s) returns r for every r within limit words.
C11_RoundTripAnyReply ==
    (trip.pc = "done" /\ Len(Words(trip.r)) <= trip.limit) => trip.out = trip.r

\* C11 amended: respond(name, s) returns r for every r within limit words in
\* which no word is empty and no two adjacent words are the same (so that
\* neither the terminator nor the repetition check ends the generation early).
C11_RoundTripPlainReply ==
    (trip.pc = "done" /\ Len(Words(trip.r)) <= trip.limit /\ PlainReply(trip.r)) =>
        /\ ret.val = "ok"
        /\ trip.out = trip.r

\* C11 witness: a reply of three words has come back whole, with limit 3.
C11_Witness ==
    /\ trip.pc = "done"
    /\ trip.limit = 3
    /\ Len(Words(trip.r)) = 3
    /\ PlainReply(trip.r)
    /\ trip.out = trip.r

(***************************************************************************)
(* Exchanges with a speaker: from a new instance, conversations added, a   *)
(* snapshot trained by the caller, and respond called again and again with *)
(* or without a speaker, with the reserved id reset in between.            *)
(***************************************************************************)
TalkInit == SysInit /\ gen = GenIdle /\ feat = FeatIdle /\ trip = [pc |-> "talk", out |-> <<>>]

\* add_conversation([Sent1, Sent2])
TalkAdd ==
    /\ trip.pc = "talk"
    /\ TripCall(add_conversation(AllocConv(Self, <<Sent1, Sent2>>), Len(convs) + 1, None),
                "add_conversation", "talk")

\* create_snapshot(key, clear_data, use_threads=False)
TalkCreate ==
    /\ trip.pc = "talk"
    /\ \E key \in Names, clear_data \in BOOLEAN :
         TripCall(create_snapshot(Self, key, clear_data, DefaultHistoryLimit, DefaultCommit, FALSE),
                  "create_snapshot", "talk")

\* respond(snapshot, Sent1, speaker, use_history, commit_history)
TalkRespondCall(speaker, use_history) ==
    /\ trip.pc = "talk"
    /\ \E snapshot \in Names, commit_history \in BOOLEAN, cls \in ClsInputs :
         TripCall(respond(Self, snapshot, Sent1, speaker, use_history, commit_history,
                          DefaultLimit, DefaultRecursionLimit, cls),
                  "respond", "talk")

TalkRespond == \E speaker \in Speakers \cup {None}, use_history \in BOOLEAN :
                  TalkRespondCall(speaker, use_history)

\* reset_id of the reserved id of a speaker
TalkReset ==
    /\ trip.pc = "talk"
    /\ \E speaker \in Speakers : TripCall(reset_id(Self, HistoryId(speaker)), "reset_id", "talk")

TalkNext == TalkAdd \/ TalkCreate \/ TalkRespond \/ TalkReset

SpecTalk == TalkInit /\ [][TalkNext]_vars

\* C16: when respond completes with a speaker and history use enabled, the
\* speaker's History is extended by exactly [sentence, output] in that order
\* and the conversation tracked under the speaker's reserved id is extended by
\* the same two sentences, a new conversation being started when the id is not
\* tracked; when no speaker is given or history use is disabled, respond leaves
\* History, the Buffer and the Conversation-ID Map unchanged.
C16_RespondHistoryFrame ==
    [][\A speaker \in Speakers \cup {None}, use_history \in BOOLEAN :
         (TalkRespondCall(speaker, use_history) /\ ret'.val = "ok") =>
            IF speaker # None /\ use_history
            THEN LET pair == <<Sent1, ret'.out>>
                     hid == HistoryId(speaker)
                     old == IF speaker \in DOMAIN history THEN history[speaker] ELSE <<>>
                 IN /\ DOMAIN history' = DOMAIN history \cup {speaker}
                    /\ history'[speaker] = old \o pair
                    /\ \A sp \in DOMAIN history \ {speaker} : history'[sp] = history[sp]
                    /\ IF hid \in DOMAIN conversation_ids
                       THEN /\ Len(Buffer') = Len(Buffer)
                            /\ Buffer'[conversation_ids[hid] + 1] =
                                  Buffer[conversation_ids[hid] + 1] \o pair
                            /\ conversation_ids' = conversation_ids
                       ELSE /\ Buffer' = Append(Buffer, pair)
                            /\ conversation_ids' = (hid :> Len(Buffer)) @@ conversation_ids
            ELSE /\ history' = history
                 /\ Buffer' = Buffer
                 /\ UNCHANGED <<data, lists, convs, conversation_ids>>]_vars

\* C16 witness: a second exchange with the same speaker has extended the
\* tracked conversation and the History to four sentences.
C16_Witness ==
    /\ ret.op = "respond"
    /\ ret.val = "ok"
    /\ \E speaker \in DOMAIN history :
         /\ Len(history[speaker]) = 4
         /\ HistoryId(speaker) \in DOMAIN conversation_ids
         /\ conversation_ids[HistoryId(speaker)] < Len(Buffer)
         /\ Buffer[conversation_ids[HistoryId(speaker)] + 1] = history[speaker]

====
